---- MODULE Spec2Model ----
(***************************************************************************)
(* Model of the SERP acquisition pipeline of seo-keyword-intel:            *)
(*   backend/scraper.py  detect_blocking, extract_serp_from_html,          *)
(*                       fetch_serp_headful (one browser attempt, wrapped  *)
(*                       by tenacity's @retry), fetch_serp                 *)
(*   backend/main.py     scrape_keywords_wrapper                           *)
(***************************************************************************)
EXTENDS Integers, Sequences, FiniteSets, TLC

(***************************************************************************)
(* Bounds of the model.                                                    *)
(***************************************************************************)
MaxKeywords == 2
MaxApiRows == 1
MaxItems == 1

(***************************************************************************)
(* Program constants.                                                      *)
(***************************************************************************)
\* stop_after_attempt(4) in the decorator of fetch_serp_headful
MaxAttempts == 4

\* Python's None, for a reason (a string) and for a debug path (a tuple)
NoneStr == "None"
NonePath == << >>

(***************************************************************************)
(* Pages.  A page (driver.page_source) is either the empty string or a     *)
(* document with a set of text fragments and a sequence of elements in     *)
(* document order; parent is the index of the enclosing element (0: none). *)
(***************************************************************************)
Node(tag, cls, attrs, href, text, parent) ==
  [tag |-> tag, cls |-> cls, attrs |-> attrs, href |-> href, text |-> text, parent |-> parent]

Page(frags, nodes) ==
  [empty |-> FALSE, frags |-> frags, nodes |-> nodes]

EmptyPage ==
  [empty |-> TRUE, frags |-> {}, nodes |-> << >>]

\* html.lower(): the lower-cased form of each text fragment
Lower(frag) ==
  CASE frag = "reCAPTCHA" -> "recaptcha"
    [] frag = "Sorry" -> "sorry"
    [] frag = "Cloudflare" -> "cloudflare"
    [] OTHER -> frag

\* the needles of detect_blocking that occur inside a lower-cased fragment
NeedlesIn(lfrag) ==
  CASE lfrag = "our systems have detected unusual traffic" ->
         {"our systems have detected unusual traffic", "unusual traffic"}
    [] lfrag = "g-recaptcha" -> {"g-recaptcha", "recaptcha"}
    [] OTHER -> {lfrag}

\* needle in html.lower()
Contains(html, needle) ==
  \E f \in html.frags : needle \in NeedlesIn(Lower(f))

RECURSIVE IsDescendant(_, _, _)
\* element i lies inside element j
IsDescendant(nodes, i, j) ==
  IF i = 0 \/ nodes[i].parent = 0 THEN FALSE
  ELSE nodes[i].parent = j \/ IsDescendant(nodes, nodes[i].parent, j)

RECURSIVE Ascending(_)
\* the members of a set of indices, in increasing (document) order
Ascending(S) ==
  IF S = {} THEN << >>
  ELSE LET m == CHOOSE i \in S : \A j \in S : i <= j
       IN <<m>> \o Ascending(S \ {m})

IsLink(n) == n.tag = "a" /\ n.href # ""

\* whether element n matches a selector of the source
Matches(n, selector) ==
  CASE selector = "h3" -> n.tag = "h3"
    [] selector = ".VwiC3b" -> n.cls = "VwiC3b"
    [] selector = "div.g" -> n.tag = "div" /\ n.cls = "g"
    [] selector = "a[href]" -> IsLink(n)
    [] selector = ".VwiC3b, .IsZvec, .aCOpRe, .s3v9rd" ->
         n.cls \in {"VwiC3b", "IsZvec", "aCOpRe", "s3v9rd"}
    [] selector = "div.g, div[data-hveid], div[data-ved]" ->
         n.tag = "div" /\ (n.cls = "g" \/ "data-hveid" \in n.attrs \/ "data-ved" \in n.attrs)

\* soup.select / soup.find_all: the elements matching the selector, in document order
SelectFrom(nodes, selector) ==
  Ascending({i \in 1..Len(nodes) : Matches(nodes[i], selector)})

\* g.find(...) / g.select_one(...): first descendant of g matching the selector, 0 if none
FindIn(nodes, g, selector) ==
  LET hits == {i \in 1..Len(nodes) : IsDescendant(nodes, i, g) /\ Matches(nodes[i], selector)}
  IN IF hits = {} THEN 0 ELSE CHOOSE i \in hits : \A j \in hits : i <= j

RECURSIVE FindParentLink(_, _)
\* h.find_parent("a", href=True): nearest enclosing link, 0 if none
FindParentLink(nodes, i) ==
  LET p == nodes[i].parent
  IN IF p = 0 THEN 0
     ELSE IF IsLink(nodes[p]) THEN p ELSE FindParentLink(nodes, p)

\* a structural test that asks for every kind of result element to be present
AnyResultNodeMissing(html) ==
  \/ SelectFrom(html.nodes, "h3") = << >>
  \/ SelectFrom(html.nodes, ".VwiC3b") = << >>
  \/ SelectFrom(html.nodes, "div.g") = << >>

\* scraper.py 120: "no h3, no .VwiC3b, no div.g"
NoResultNodes(html) ==
  /\ SelectFrom(html.nodes, "h3") = << >>
  /\ SelectFrom(html.nodes, ".VwiC3b") = << >>
  /\ SelectFrom(html.nodes, "div.g") = << >>

\* a classifier that looks at the structure of the page before the markers
DetectStructureFirst(html) ==
  IF html.empty THEN [blocked |-> TRUE, reason |-> "empty_html"]
  ELSE IF NoResultNodes(html) THEN [blocked |-> TRUE, reason |-> "no_result_nodes"]
  ELSE IF Contains(html, "unusual traffic")
    THEN [blocked |-> TRUE, reason |-> "unusual_traffic_message"]
  ELSE IF Contains(html, "recaptcha") THEN [blocked |-> TRUE, reason |-> "recaptcha"]
  ELSE IF Contains(html, "please enable javascript") /\ Contains(html, "cloudflare")
    THEN [blocked |-> TRUE, reason |-> "cloudflare_js_challenge"]
  ELSE IF Contains(html, "are you a robot") \/ Contains(html, "press and hold")
    THEN [blocked |-> TRUE, reason |-> "robot_challenge"]
  ELSE [blocked |-> FALSE, reason |-> NoneStr]

\* a classifier that tests the "sorry" rule before the unusual-traffic rule
DetectSorryFirst(html) ==
  IF html.empty THEN [blocked |-> TRUE, reason |-> "empty_html"]
  ELSE IF Contains(html, "sorry")
          /\ Contains(html, "our systems have detected unusual traffic")
    THEN [blocked |-> TRUE, reason |-> "sorry_unusual"]
  ELSE IF Contains(html, "unusual traffic")
          \/ Contains(html, "our systems have detected unusual traffic")
    THEN [blocked |-> TRUE, reason |-> "unusual_traffic_message"]
  ELSE IF Contains(html, "recaptcha") \/ Contains(html, "g-recaptcha")
    THEN [blocked |-> TRUE, reason |-> "recaptcha"]
  ELSE IF Contains(html, "please enable javascript") /\ Contains(html, "cloudflare")
    THEN [blocked |-> TRUE, reason |-> "cloudflare_js_challenge"]
  ELSE IF Contains(html, "are you a robot") \/ Contains(html, "press and hold")
    THEN [blocked |-> TRUE, reason |-> "robot_challenge"]
  ELSE IF NoResultNodes(html)
    THEN [blocked |-> TRUE, reason |-> "no_result_nodes"]
  ELSE [blocked |-> FALSE, reason |-> NoneStr]

(***************************************************************************)
(* detect_blocking(html) -> (is_blocked, reason)                           *)
(***************************************************************************)
detect_blocking(html) ==
  IF html.empty THEN [blocked |-> TRUE, reason |-> "empty_html"]
  ELSE IF Contains(html, "unusual traffic")
          \/ Contains(html, "our systems have detected unusual traffic")
    THEN [blocked |-> TRUE, reason |-> "unusual_traffic_message"]
  ELSE IF Contains(html, "recaptcha") \/ Contains(html, "g-recaptcha")
    THEN [blocked |-> TRUE, reason |-> "recaptcha"]
  ELSE IF Contains(html, "please enable javascript") /\ Contains(html, "cloudflare")
    THEN [blocked |-> TRUE, reason |-> "cloudflare_js_challenge"]
  ELSE IF Contains(html, "sorry")
          /\ Contains(html, "our systems have detected unusual traffic")
    THEN [blocked |-> TRUE, reason |-> "sorry_unusual"]
  ELSE IF Contains(html, "are you a robot") \/ Contains(html, "press and hold")
    THEN [blocked |-> TRUE, reason |-> "robot_challenge"]
  ELSE IF NoResultNodes(html)
    THEN [blocked |-> TRUE, reason |-> "no_result_nodes"]
  ELSE [blocked |-> FALSE, reason |-> NoneStr]

(***************************************************************************)
(* extract_serp_from_html(html, max_items)                                 *)
(***************************************************************************)
RECURSIVE ExtractPrimaryByIndex(_, _, _, _, _, _)
\* a loop that numbers a record by the index of its block among the matched blocks
ExtractPrimaryByIndex(nodes, results, k, out, pos, max_items) ==
  IF k > Len(results) \/ Len(out) >= max_items THEN out
  ELSE LET g == results[k]
           h3 == FindIn(nodes, g, "h3")
           a == FindIn(nodes, g, "a[href]")
           snippet_el == FindIn(nodes, g, ".VwiC3b, .IsZvec, .aCOpRe, .s3v9rd")
       IN IF h3 = 0 THEN ExtractPrimaryByIndex(nodes, results, k + 1, out, pos, max_items)
          ELSE ExtractPrimaryByIndex(nodes, results, k + 1,
                 Append(out, [title |-> nodes[h3].text,
                              snippet |-> IF snippet_el = 0 THEN "" ELSE nodes[snippet_el].text,
                              url |-> IF a = 0 THEN "" ELSE nodes[a].href,
                              position |-> k]),
                 pos + 1, max_items)

RECURSIVE ExtractPrimary(_, _, _, _, _, _)
\* the loop over the result blocks, with its running counter pos
ExtractPrimary(nodes, results, k, out, pos, max_items) ==
  IF k > Len(results) \/ Len(out) >= max_items THEN out
  ELSE LET g == results[k]
           h3 == FindIn(nodes, g, "h3")
           a == FindIn(nodes, g, "a[href]")
           snippet_el == FindIn(nodes, g, ".VwiC3b, .IsZvec, .aCOpRe, .s3v9rd")
       IN IF h3 = 0 THEN ExtractPrimary(nodes, results, k + 1, out, pos, max_items)
          ELSE ExtractPrimary(nodes, results, k + 1,
                 Append(out, [title |-> nodes[h3].text,
                              snippet |-> IF snippet_el = 0 THEN "" ELSE nodes[snippet_el].text,
                              url |-> IF a = 0 THEN "" ELSE nodes[a].href,
                              position |-> pos]),
                 pos + 1, max_items)

RECURSIVE ExtractFallbackLinked(_, _, _, _, _)
\* a fallback loop that keeps only the headings found inside a link
ExtractFallbackLinked(nodes, hs, k, out, max_items) ==
  IF k > Len(hs) \/ Len(out) >= max_items THEN out
  ELSE LET h == hs[k]
           a == FindParentLink(nodes, h)
       IN IF a = 0 THEN ExtractFallbackLinked(nodes, hs, k + 1, out, max_items)
          ELSE ExtractFallbackLinked(nodes, hs, k + 1,
                 Append(out, [title |-> nodes[h].text,
                              snippet |-> "",
                              url |-> nodes[a].href,
                              position |-> Len(out) + 1]),
                 max_items)

RECURSIVE ExtractFallback(_, _, _, _, _)
\* the fallback loop over all h3 elements of the document
ExtractFallback(nodes, hs, k, out, max_items) ==
  IF k > Len(hs) \/ Len(out) >= max_items THEN out
  ELSE LET h == hs[k]
           a == FindParentLink(nodes, h)
       IN ExtractFallback(nodes, hs, k + 1,
            Append(out, [title |-> nodes[h].text,
                         snippet |-> "",
                         url |-> IF a = 0 THEN "" ELSE nodes[a].href,
                         position |-> Len(out) + 1]),
            max_items)

extract_serp_from_html(html, max_items) ==
  LET out == ExtractPrimary(html.nodes, SelectFrom(html.nodes, "div.g, div[data-hveid], div[data-ved]"),
                            1, << >>, 1, max_items)
  IN IF out = << >>
     THEN ExtractFallback(html.nodes, SelectFrom(html.nodes, "h3"), 1, << >>, max_items)
     ELSE out

(***************************************************************************)
(* utils.py: URL_CLEAN_RE = ^/url\?q=(?P<u>https?://[^&]+), as used by      *)
(* results_to_dataframe: a redirect wrapper is replaced by its destination *)
(***************************************************************************)
UrlClean(url) ==
  CASE url = "/url?q=https://two.example/&sa=U" -> "https://two.example/"
    [] OTHER -> url

(***************************************************************************)
(* The pages the browser can show in the pipeline.                         *)
(***************************************************************************)
\* a CAPTCHA interstitial: no result element at all
CaptchaPage ==
  Page({"reCAPTCHA"}, << >>)

\* two organic results in div.g blocks
ResultsPage ==
  Page({"results"},
       << Node("div", "g", {}, "", "", 0),
          Node("a", "", {}, "https://one.example/", "", 1),
          Node("h3", "", {}, "", "First", 2),
          Node("div", "VwiC3b", {}, "", "first snippet", 1),
          Node("div", "g", {}, "", "", 0),
          Node("a", "", {}, "/url?q=https://two.example/&sa=U", "", 5),
          Node("h3", "", {}, "", "Second", 6) >>)

\* a result block without any heading: not blocked, nothing to extract
NoHeadingPage ==
  Page({"results"}, << Node("div", "g", {}, "", "", 0) >>)

BrowserPages == {EmptyPage, CaptchaPage, ResultsPage, NoHeadingPage}

(***************************************************************************)
(* The API providers.  What the remote service would answer to the next    *)
(* call is an input: the call raises (requests, raise_for_status or json   *)
(* raising) or the JSON answer has some number of organic items.           *)
(***************************************************************************)
ApiRaises == [raises |-> TRUE, items |-> 0]
ApiAnswers == {ApiRaises} \cup {[raises |-> FALSE, items |-> n] : n \in 0..MaxApiRows}

Min(a, b) == IF a <= b THEN a ELSE b

\* serpapi_search / google_cse_search on an answer with that many items:
\* the first max_items items, numbered from 1
api_search(answer, max_items) ==
  [i \in 1..Min(answer.items, IF max_items < 0 THEN 0 ELSE max_items) |->
     [title |-> "api title", snippet |-> "api snippet",
      url |-> "https://api.example/", position |-> i]]

(***************************************************************************)
(* save_debug_html(keyword, html): the path of the file written; the UTC   *)
(* timestamp of the name is the time of the attempt.                       *)
(***************************************************************************)
save_debug_html(keyword, ts) == <<keyword, ts>>

(***************************************************************************)
(* Values of one browser attempt and of the retry wrapper.                 *)
(***************************************************************************)
NoOutcome == [kind |-> "none"]
Returned(success, payload) == [kind |-> "returned", success |-> success, payload |-> payload]
Raised(exc) == [kind |-> "raised", exc |-> exc]

Failure(reason, debug_path) ==
  Returned(FALSE, [blocked_reason |-> reason, debug_path |-> debug_path])

\* a retry predicate that asks for a retry whatever the result
ShouldRetryAlways(result) == TRUE

\* _should_retry(result): retry when the success flag is false
\* (the attempt body never returns None)
_should_retry(result) == ~result.success

\* a stop condition that allows one attempt more
StopOneLate(n) == n >= MaxAttempts + 1

\* a stop condition that gives up one attempt early
StopOneEarly(n) == n >= MaxAttempts - 1

\* stop_after_attempt(4)
stop_after_attempt(n) == n >= MaxAttempts

\* a wrapper that returns the last result once the stop condition holds
RetryReturnsLast(outcome, n) ==
  IF outcome.kind = "raised" THEN "raise"
  ELSE IF ~_should_retry(outcome) THEN "return"
  ELSE IF n >= MaxAttempts THEN "return"
  ELSE "retry"

\* tenacity's decision after an attempt: "raise" the attempt's own exception
\* (retry_if_result never retries an exception), "return" the result, "retry",
\* or raise "RetryError" once the stop condition holds (no reraise, no
\* retry_error_callback in the decorator)
RetryDecision(outcome, n) ==
  IF outcome.kind = "raised" THEN "raise"
  ELSE IF ~_should_retry(outcome) THEN "return"
  ELSE IF stop_after_attempt(n) THEN "RetryError"
  ELSE "retry"

(***************************************************************************)
(* fetch_serp: the records it builds.                                      *)
(***************************************************************************)
\* unified records whose position counts from 0
UnifiedZeroBased(keyword, rs, source) ==
  [i \in 1..Len(rs) |->
     [keyword |-> keyword, title |-> rs[i].title, snippet |-> rs[i].snippet,
      url |-> rs[i].url, position |-> i - 1, source |-> source,
      blocked |-> FALSE, debug_path |-> NonePath]]

Unified(keyword, rs, source) ==
  [i \in 1..Len(rs) |->
     [keyword |-> keyword, title |-> rs[i].title, snippet |-> rs[i].snippet,
      url |-> rs[i].url, position |-> rs[i].position, source |-> source,
      blocked |-> FALSE, debug_path |-> NonePath]]

Sentinel(keyword, reason, debug_path) ==
  << [keyword |-> keyword, title |-> "", snippet |-> "", url |-> "",
      position |-> 0, source |-> "blocked", blocked |-> TRUE,
      debug_path |-> debug_path, blocked_reason |-> reason] >>

\* the record scrape_keywords_wrapper appends for a row r of fetch_serp
Normalized(r) ==
  [keyword |-> r.keyword, title |-> r.title, snippet |-> r.snippet, url |-> r.url,
   position |-> r.position, source |-> r.source, blocked |-> r.blocked,
   debug_path |-> r.debug_path,
   blocked_reason |-> IF "blocked_reason" \in DOMAIN r THEN r.blocked_reason ELSE NoneStr]

(***************************************************************************)
(* State.                                                                  *)
(***************************************************************************)
VARIABLES
  keywords,        \* scrape_keywords_wrapper: the keyword list
  per_keyword,     \* scrape_keywords_wrapper: max_items of every fetch_serp call
  api_first,       \* option api_first
  SERP_API_KEY,    \* whether the SerpAPI key is configured
  GOOGLE_CSE_KEY,  \* whether the Google CSE key is configured
  GOOGLE_CSE_CX,   \* whether the Google CSE engine id is configured
  deadline_expired,\* whether the caller's deadline has passed (no parameter carries it)
  wpc,             \* position of scrape_keywords_wrapper
  ki,              \* index of the keyword of the current loop iteration
  all_results,     \* scrape_keywords_wrapper: the accumulated records
  raw_save,        \* the exception save_raw_json raised at the end of the wrapper
  result,          \* the list scrape_keywords_wrapper returned
  fpc,             \* position of the current fetch_serp call
  rows,            \* the list fetch_serp returned
  exc,             \* the exception fetch_serp raised
  serp_env,        \* what SerpAPI answers to its next call
  cse_env,         \* what Google CSE answers to its next call
  calls,           \* the provider calls of the current fetch_serp call, in order
  attempt_number,  \* tenacity: number of the current browser attempt
  hret,            \* outcome of the retry-wrapped fetch_serp_headful
  apc,             \* position inside the body of fetch_serp_headful
  driver,          \* the attempt's driver: "None", "open", or "quit" once quit() was called
  html,            \* the attempt's last page_source
  aret,            \* pending outcome of the attempt (return value or exception)
  p_pc,            \* a call of the pure functions on their own: its position
  p_html,          \* ... the page given to detect_blocking / extract_serp_from_html
  p_max,           \* ... max_items
  p_det,           \* ... the result of detect_blocking(p_html)
  p_ext,           \* ... the result of extract_serp_from_html(p_html, p_max)
  c_pc,            \* a run of the clustering stage on its own: its position
  c_raw,           \* ... the raw records given to results_to_dataframe
  c_texts,         \* ... the texts passed to KeywordClusterer.fit_transform
  c_out,           \* ... how the stage ended
  b_n,             \* the retry wait on its own: number of the attempt to come
  b_delays         \* ... the delays slept so far, in tenths of a second

vars ==
  << keywords, per_keyword, api_first, SERP_API_KEY, GOOGLE_CSE_KEY, GOOGLE_CSE_CX,
     deadline_expired, wpc, ki, all_results, raw_save, result, fpc, rows, exc,
     serp_env, cse_env, calls, attempt_number, hret, apc, driver, html, aret,
     p_pc, p_html, p_max, p_det, p_ext, c_pc, c_raw, c_texts, c_out, b_n, b_delays >>

pure == << p_pc, p_html, p_max, p_det, p_ext >>
config ==
  << keywords, per_keyword, api_first, SERP_API_KEY, GOOGLE_CSE_KEY, GOOGLE_CSE_CX,
     deadline_expired >>
wrapper == << wpc, ki, all_results >>
ending == << raw_save, result >>
cluster == << c_pc, c_raw, c_texts, c_out >>
backoff == << b_n, b_delays >>
side == << cluster, backoff >>
attempt == << apc, driver, html, aret >>

KeywordPool == {"wireless mouse", "mechanical keyboard"}
KeywordLists == UNION {[1..n -> KeywordPool] : n \in 0..MaxKeywords}

kw == keywords[ki]

\* the pipeline before scrape_keywords_wrapper starts
PipelineIdle ==
  /\ wpc = "loop"
  /\ ki = 1
  /\ all_results = << >>
  /\ raw_save = "unsaved"
  /\ result = << >>
  /\ fpc = "idle"
  /\ rows = << >>
  /\ exc = NoneStr
  /\ serp_env = ApiRaises
  /\ cse_env = ApiRaises
  /\ calls = << >>
  /\ attempt_number = 0
  /\ hret = NoOutcome
  /\ apc = "idle"
  /\ driver = "None"
  /\ html = EmptyPage
  /\ aret = NoOutcome

\* no separate call of the pure functions
PureOff ==
  /\ p_pc = "off"
  /\ p_html = EmptyPage
  /\ p_max = 0
  /\ p_det = [blocked |-> FALSE, reason |-> NoneStr]
  /\ p_ext = << >>

\* no separate run of the clustering stage
ClusterOff ==
  /\ c_pc = "off"
  /\ c_raw = << >>
  /\ c_texts = << >>
  /\ c_out = NoneStr

\* no separate run of the retry wait
BackoffOff ==
  /\ b_n = 0
  /\ b_delays = << >>

\* the arguments of scrape_keywords_wrapper and the environment's keys
Configured ==
  /\ keywords \in KeywordLists
  /\ per_keyword \in 0..MaxItems
  /\ api_first \in BOOLEAN
  /\ SERP_API_KEY \in BOOLEAN
  /\ GOOGLE_CSE_KEY \in BOOLEAN
  /\ GOOGLE_CSE_CX \in BOOLEAN

\* a call without arguments: nothing configured
Unconfigured ==
  /\ keywords = << >>
  /\ per_keyword = 0
  /\ api_first = FALSE
  /\ SERP_API_KEY = FALSE
  /\ GOOGLE_CSE_KEY = FALSE
  /\ GOOGLE_CSE_CX = FALSE
  /\ deadline_expired = FALSE

Init ==
  /\ Configured
  /\ deadline_expired = FALSE
  /\ PipelineIdle
  /\ PureOff
  /\ ClusterOff
  /\ BackoffOff

Call(provider, status) == [provider |-> provider, status |-> status]

\* the last entry of the call log gets its outcome
Finish(log, status) == [log EXCEPT ![Len(log)].status = status]

(***************************************************************************)
(* scrape_keywords_wrapper                                                 *)
(***************************************************************************)
\* main.py 138-146: the next keyword is passed to fetch_serp
W_Call ==
  /\ wpc = "loop"
  /\ ki <= Len(keywords)
  /\ wpc' = "fetch"
  /\ fpc' = "start"
  /\ calls' = << >>
  /\ serp_env' \in (IF SERP_API_KEY THEN ApiAnswers ELSE {ApiRaises})
  /\ cse_env' \in (IF GOOGLE_CSE_KEY /\ GOOGLE_CSE_CX THEN ApiAnswers ELSE {ApiRaises})
  /\ rows' = << >>
  /\ hret' = NoOutcome
  /\ attempt_number' = 0
  /\ UNCHANGED << pure, side, ending, config, ki, all_results, exc, attempt >>

\* main.py 150-164: the rows fetch_serp returned are normalised and appended
W_Collect ==
  /\ wpc = "fetch"
  /\ fpc = "returned"
  /\ all_results' = all_results \o [i \in 1..Len(rows) |-> Normalized(rows[i])]
  /\ wpc' = "sleep"
  /\ fpc' = "idle"
  /\ UNCHANGED << pure, side, ending, config, ki, rows, exc, serp_env, cse_env, calls, attempt_number, hret, attempt >>

\* main.py 167: the politeness sleep between keywords
W_Sleep ==
  /\ wpc = "sleep"
  /\ wpc' = "loop"
  /\ ki' = ki + 1
  /\ UNCHANGED << pure, side, ending, config, all_results, fpc, rows, exc, serp_env, cse_env, calls,
                  attempt_number, hret, attempt >>

\* main.py 140: an exception of fetch_serp is not caught and leaves the wrapper
W_Raise ==
  /\ wpc = "fetch"
  /\ fpc = "raised"
  /\ wpc' = "raised"
  /\ UNCHANGED << pure, side, ending, config, ki, all_results, fpc, rows, exc, serp_env, cse_env, calls,
                  attempt_number, hret, attempt >>

\* a save whose exception leaves the wrapper
SaveRawPropagates(e) == e

\* main.py 170-174: "try: save_raw_json(...) except Exception: pass": the
\* exception that leaves the try, given the one save_raw_json raised (or None)
SaveRawGuarded(e) == NoneStr

\* main.py 169-176: after the last keyword the list is saved and returned
W_Return ==
  /\ wpc = "loop"
  /\ ki > Len(keywords)
  /\ \E e \in {NoneStr, "OSError"} :
       /\ raw_save' = e
       /\ IF SaveRawGuarded(e) = NoneStr
          THEN /\ wpc' = "returned"
               /\ result' = all_results
          ELSE /\ wpc' = "raised"
               /\ result' = result
  /\ UNCHANGED << pure, side, config, ki, all_results, fpc, rows, exc, serp_env, cse_env, calls,
                  attempt_number, hret, attempt >>

(***************************************************************************)
(* fetch_serp_headful: the body of one browser attempt.                    *)
(***************************************************************************)
\* scraper.py 345-348: driver = make_chrome_driver(...), which returns the
\* driver or raises before any driver exists
A_MakeDriver ==
  /\ fpc = "headful"
  /\ apc = "make_driver"
  /\ calls' = Append(calls, Call("selenium", "running"))
  /\ html' = EmptyPage
  /\ \E ok \in BOOLEAN :
       IF ok THEN /\ driver' = "open"
                  /\ aret' = NoOutcome
                  /\ apc' = "navigate"
       ELSE /\ driver' = "None"
            /\ aret' = Raised("WebDriverException")
            /\ apc' = "except"
  /\ UNCHANGED << pure, side, ending, config, wrapper, fpc, rows, exc, serp_env, cse_env, attempt_number, hret >>

\* scraper.py 350-377: window size, landing page and consent (each guarded by
\* its own try/except), then driver.get(url), which may raise
A_Navigate ==
  /\ fpc = "headful"
  /\ apc = "navigate"
  /\ \E ok \in BOOLEAN :
       IF ok THEN /\ aret' = aret
                  /\ apc' = "check1"
       ELSE /\ aret' = Raised("WebDriverException")
            /\ apc' = "except"
  /\ UNCHANGED << pure, side, ending, config, wrapper, fpc, rows, exc, serp_env, cse_env, calls,
                  attempt_number, hret, driver, html >>

\* the outcome of "blocked, reason = detect_blocking(html); if blocked: save, return Failure"
\* saved: whether save_debug_html could write the file
BlockedExit(keyword, ts, reason, saved) ==
  IF saved THEN Failure(reason, save_debug_html(keyword, ts))
  ELSE Raised("OSError")

\* scraper.py 379-384: first read of the page and first blocking check
A_Check1 ==
  /\ fpc = "headful"
  /\ apc = "check1"
  /\ \E ok \in BOOLEAN, page \in BrowserPages, saved \in BOOLEAN :
       IF ~ok THEN /\ html' = html
                   /\ aret' = Raised("WebDriverException")
                   /\ apc' = "except"
       ELSE /\ html' = page
            /\ IF detect_blocking(page).blocked
               THEN /\ aret' = BlockedExit(kw, attempt_number, detect_blocking(page).reason, saved)
                    /\ apc' = IF saved THEN "finally" ELSE "except"
               ELSE /\ aret' = aret
                    /\ apc' = "scroll"
  /\ UNCHANGED << pure, side, ending, config, wrapper, fpc, rows, exc, serp_env, cse_env, calls,
                  attempt_number, hret, driver >>

\* scraper.py 386-397: wait for a result marker (a timeout is ignored), then
\* human_scrolling, whose scripts may raise
A_Scroll ==
  /\ fpc = "headful"
  /\ apc = "scroll"
  /\ \E ok \in BOOLEAN :
       IF ok THEN /\ aret' = aret
                  /\ apc' = "check2"
       ELSE /\ aret' = Raised("WebDriverException")
            /\ apc' = "except"
  /\ UNCHANGED << pure, side, ending, config, wrapper, fpc, rows, exc, serp_env, cse_env, calls,
                  attempt_number, hret, driver, html >>

\* scraper.py 406-413: extraction; no record is the failure no_results
ExtractExit(keyword, ts, page, max_items, saved) ==
  LET results == extract_serp_from_html(page, max_items)
  IN IF results = << >> THEN BlockedExit(keyword, ts, "no_results", saved)
     ELSE Returned(TRUE, results)

\* scraper.py 399-413: second read, second blocking check, extraction
A_Check2 ==
  /\ fpc = "headful"
  /\ apc = "check2"
  /\ \E ok \in BOOLEAN, page \in BrowserPages, saved \in BOOLEAN :
       IF ~ok THEN /\ html' = html
                   /\ aret' = Raised("WebDriverException")
                   /\ apc' = "except"
       ELSE /\ html' = page
            /\ aret' = IF detect_blocking(page).blocked
                       THEN BlockedExit(kw, attempt_number, detect_blocking(page).reason, saved)
                       ELSE ExtractExit(kw, attempt_number, page, per_keyword, saved)
            /\ apc' = IF aret'.kind = "raised" THEN "except" ELSE "finally"
  /\ UNCHANGED << pure, side, ending, config, wrapper, fpc, rows, exc, serp_env, cse_env, calls,
                  attempt_number, hret, driver >>

\* scraper.py 415-425: the handler reads the page if there is a driver, saves it
\* if it is not empty, and returns the failure "exception"; an exception of
\* save_debug_html leaves the handler
ExceptExit(keyword, ts, e, page, saved) ==
  IF page.empty THEN Returned(FALSE, [blocked_reason |-> "exception", error |-> e,
                                      debug_path |-> NonePath])
  ELSE IF saved THEN Returned(FALSE, [blocked_reason |-> "exception", error |-> e,
                                      debug_path |-> save_debug_html(keyword, ts)])
  ELSE Raised("OSError")

A_Except ==
  /\ fpc = "headful"
  /\ apc = "except"
  /\ \E ok \in BOOLEAN, page \in BrowserPages, saved \in BOOLEAN :
       /\ html' = IF driver = "open" /\ ok THEN page ELSE EmptyPage
       /\ aret' = ExceptExit(kw, attempt_number, aret.exc, html', saved)
  /\ apc' = "finally"
  /\ UNCHANGED << pure, side, ending, config, wrapper, fpc, rows, exc, serp_env, cse_env, calls,
                  attempt_number, hret, driver >>

\* an attempt whose exit leaves the driver as it is
FinallyNoQuit(d) == d

\* scraper.py 427-432: "if driver: driver.quit()", an exception of quit() ignored
Finally(d) == IF d = "None" THEN d ELSE "quit"

A_Finally ==
  /\ fpc = "headful"
  /\ apc = "finally"
  /\ driver' = Finally(driver)
  /\ apc' = "ended"
  /\ calls' = Finish(calls, IF aret.kind = "raised" THEN "raised"
                            ELSE IF aret.success THEN "ok" ELSE "failed")
  /\ UNCHANGED << pure, side, ending, config, wrapper, fpc, rows, exc, serp_env, cse_env,
                  attempt_number, hret, html, aret >>

(***************************************************************************)
(* The retry wrapper of fetch_serp_headful (tenacity).                     *)
(***************************************************************************)
\* scraper.py 336: after an attempt, return, raise, or sleep and run the body again
R_Decide ==
  /\ fpc = "headful"
  /\ apc = "ended"
  /\ LET d == RetryDecision(aret, attempt_number)
     IN IF d = "retry"
        THEN /\ attempt_number' = attempt_number + 1
             /\ apc' = "make_driver"
             /\ driver' = "None"
             /\ UNCHANGED << fpc, hret >>
        ELSE /\ hret' = IF d = "RetryError" THEN Raised("RetryError") ELSE aret
             /\ fpc' = "tail"
             /\ apc' = "idle"
             /\ UNCHANGED << attempt_number, driver >>
  /\ html' = EmptyPage
  /\ UNCHANGED << pure, side, ending, config, wrapper, rows, exc, serp_env, cse_env, calls, aret >>

(***************************************************************************)
(* fetch_serp                                                              *)
(***************************************************************************)
\* scraper.py 445-458: the api_first branch, then the call of the wrapped
\* fetch_serp_headful
F_ApiFirst ==
  /\ wpc = "fetch"
  /\ fpc = "start"
  /\ IF api_first /\ SERP_API_KEY
     THEN /\ serp_env' \in ApiAnswers
          /\ IF serp_env.raises
             THEN /\ calls' = Append(calls, Call("serpapi", "failed"))
                  /\ fpc' = "headful"
                  /\ attempt_number' = 1
                  /\ apc' = "make_driver"
                  /\ rows' = rows
             ELSE /\ calls' = Append(calls, Call("serpapi", "ok"))
                  /\ rows' = Unified(kw, api_search(serp_env, per_keyword), "serpapi")
                  /\ fpc' = "returned"
                  /\ UNCHANGED << attempt_number, apc >>
     ELSE /\ fpc' = "headful"
          /\ attempt_number' = 1
          /\ apc' = "make_driver"
          /\ UNCHANGED << serp_env, calls, rows >>
  /\ driver' = "None"
  /\ UNCHANGED << pure, side, ending, config, wrapper, exc, cse_env, hret, html, aret >>

\* scraper.py 467-496: after a failure of the browser, SerpAPI, then Google CSE,
\* then the sentinel record built from the browser's payload
Fallback(keyword, max_items, payload, serp, serp_answer, cse, cse_answer) ==
  LET reason == payload.blocked_reason
      debug_path == payload.debug_path
      c1 == IF serp THEN << Call("serpapi", "failed") >> ELSE << >>
      c2 == IF cse THEN << Call("google_cse", "failed") >> ELSE << >>
  IN IF serp /\ ~serp_answer.raises
     THEN [rows |-> Unified(keyword, api_search(serp_answer, max_items), "serpapi"),
           calls |-> << Call("serpapi", "ok") >>]
     ELSE IF cse /\ ~cse_answer.raises
     THEN [rows |-> Unified(keyword, api_search(cse_answer, max_items), "google_cse"),
           calls |-> c1 \o << Call("google_cse", "ok") >>]
     ELSE [rows |-> Sentinel(keyword, reason, debug_path), calls |-> c1 \o c2]

\* scraper.py 458-496: what fetch_serp does with the outcome of the wrapped
\* fetch_serp_headful; an exception of it is not caught
F_Tail ==
  /\ wpc = "fetch"
  /\ fpc = "tail"
  /\ IF hret.kind = "raised"
     THEN /\ fpc' = "raised"
          /\ exc' = hret.exc
          /\ UNCHANGED << rows, calls >>
     ELSE IF hret.success
     THEN /\ fpc' = "returned"
          /\ rows' = Unified(kw, hret.payload, "selenium")
          /\ UNCHANGED << exc, calls >>
     ELSE LET fb == Fallback(kw, per_keyword, hret.payload, SERP_API_KEY, serp_env,
                             GOOGLE_CSE_KEY /\ GOOGLE_CSE_CX, cse_env)
          IN /\ fpc' = "returned"
             /\ rows' = fb.rows
             /\ calls' = calls \o fb.calls
             /\ exc' = exc
  /\ UNCHANGED << pure, side, ending, config, wrapper, serp_env, cse_env, attempt_number, hret, attempt >>

Next ==
  \/ W_Call
  \/ W_Collect
  \/ W_Sleep
  \/ W_Raise
  \/ W_Return
  \/ F_ApiFirst
  \/ A_MakeDriver
  \/ A_Navigate
  \/ A_Check1
  \/ A_Scroll
  \/ A_Check2
  \/ A_Except
  \/ A_Finally
  \/ R_Decide
  \/ F_Tail

Spec == Init /\ [][Next]_vars


\* every step of the pipeline is a step of one thread that runs on: a step that
\* can be taken is taken (each wait and each provider call completes)
FairSpec == Spec /\ WF_vars(Next)

(***************************************************************************)
(* The pipeline called by a caller whose deadline has already passed.      *)
(* scrape_keywords_wrapper, fetch_serp and fetch_serp_headful take no      *)
(* deadline argument and read no clock, so the steps are those of Next.    *)
(***************************************************************************)
InitDeadline ==
  /\ Configured
  /\ deadline_expired = TRUE
  /\ PipelineIdle
  /\ PureOff
  /\ ClusterOff
  /\ BackoffOff

SpecDeadline == InitDeadline /\ [][Next]_vars

(***************************************************************************)
(* detect_blocking and extract_serp_from_html called on their own, on      *)
(* every page of a bounded set.                                            *)
(***************************************************************************)
MaxExtract == 3

\* text fragments a page may contain, as they are written in the page
Fragments ==
  {"unusual traffic", "our systems have detected unusual traffic", "reCAPTCHA",
   "g-recaptcha", "please enable javascript", "Cloudflare", "Sorry",
   "are you a robot", "press and hold"}

\* a block without heading, then a block with a heading and a redirect link
SkipDom ==
  << Node("div", "g", {}, "", "", 0),
     Node("div", "g", {}, "", "", 0),
     Node("a", "", {}, "/url?q=https://two.example/&sa=U", "", 2),
     Node("h3", "", {}, "", "Second", 3) >>

\* a div.g nested in a div[data-hveid]: both match the block selector
NestedDom ==
  << Node("div", "", {"data-hveid"}, "", "", 0),
     Node("div", "g", {}, "", "", 1),
     Node("a", "", {}, "https://one.example/", "", 2),
     Node("h3", "", {}, "", "First", 3),
     Node("div", "VwiC3b", {}, "", "first snippet", 2) >>

\* headings outside any result block: one inside a link, one bare
LooseDom ==
  << Node("a", "", {}, "https://one.example/", "", 0),
     Node("h3", "", {}, "", "First", 1),
     Node("h3", "", {}, "", "Bare", 0) >>

\* a div[data-ved] without heading and a heading outside of it
VedDom ==
  << Node("div", "", {"data-ved"}, "", "", 0),
     Node("h3", "", {}, "", "Outside", 0) >>

\* a div[data-hveid] alone: none of h3, .VwiC3b, div.g
HveidDom ==
  << Node("div", "", {"data-hveid"}, "", "", 0) >>

\* a snippet element alone
SnippetDom ==
  << Node("span", "VwiC3b", {}, "", "a snippet", 0) >>

Doms ==
  {<< >>, ResultsPage.nodes, NoHeadingPage.nodes, SkipDom, NestedDom, LooseDom,
   VedDom, HveidDom, SnippetDom}

PurePages ==
  {EmptyPage} \cup {Page(f, d) : f \in SUBSET Fragments, d \in Doms}

InitPure ==
  /\ Unconfigured
  /\ PipelineIdle
  /\ ClusterOff
  /\ BackoffOff
  /\ p_pc = "input"
  /\ p_html \in PurePages
  /\ p_max \in 0..MaxExtract
  /\ p_det = [blocked |-> FALSE, reason |-> NoneStr]
  /\ p_ext = << >>

\* blocked, reason = detect_blocking(html)
P_Classify ==
  /\ p_pc = "input"
  /\ p_det' = detect_blocking(p_html)
  /\ p_pc' = "classified"
  /\ UNCHANGED << side, ending, config, wrapper, fpc, rows, exc, serp_env, cse_env, calls,
                  attempt_number, hret, attempt, p_html, p_max, p_ext >>

\* results = extract_serp_from_html(html, max_items)
P_Extract ==
  /\ p_pc = "classified"
  /\ p_ext' = extract_serp_from_html(p_html, p_max)
  /\ p_pc' = "extracted"
  /\ UNCHANGED << side, ending, config, wrapper, fpc, rows, exc, serp_env, cse_env, calls,
                  attempt_number, hret, attempt, p_html, p_max, p_det >>

NextPure ==
  \/ P_Classify
  \/ P_Extract

SpecPure == InitPure /\ [][NextPure]_vars

(***************************************************************************)
(* The clustering stage of cluster_endpoint and run_cli_mode on its own,   *)
(* applied to every list of a bounded set of raw records.  Only title and  *)
(* snippet matter to the texts.                                            *)
(***************************************************************************)
MaxRaw == 2

RawRecords ==
  {[title |-> t, snippet |-> sn] : t \in {"", " ", "Best mouse"}, sn \in {"", "a snippet"}}

RawLists == UNION {[1..n -> RawRecords] : n \in 0..MaxRaw}

\* utils.normalize_text: strip, whitespace runs collapsed
normalize_text(str) == IF str \in {"", " "} THEN "" ELSE str

\* utils.results_to_dataframe: one row per record, no record is dropped
results_to_dataframe(results) ==
  [i \in 1..Len(results) |->
     [title |-> normalize_text(results[i].title),
      snippet |-> normalize_text(results[i].snippet)]]

NonEmptyStr(str) == str # ""

\* (title + " " + snippet).strip(), kept as the sequence of its non-empty
\* parts: the empty text is << >>
TextOf(row) == SelectSeq(<< row.title, row.snippet >>, NonEmptyStr)

\* df["text"].tolist()
TextsOf(df) == [i \in 1..Len(df) |-> TextOf(df[i])]

\* any(texts)
AnyText(texts) == \E i \in 1..Len(texts) : texts[i] # << >>

\* main.py 68-85 (cli = FALSE) and 190-210 (cli = TRUE): how the stage ends and
\* the texts it passes to KeywordClusterer.fit_transform / cluster
ClusterStage(raw_results, cli) ==
  LET df == results_to_dataframe(raw_results)
      texts == TextsOf(df)
  IN IF cli /\ raw_results = << >> THEN [out |-> "RuntimeError", texts |-> << >>]
     ELSE IF df = << >> THEN [out |-> IF cli THEN "RuntimeError" ELSE "500", texts |-> << >>]
     ELSE IF ~AnyText(texts) THEN [out |-> IF cli THEN "RuntimeError" ELSE "500", texts |-> << >>]
     ELSE [out |-> "clustered", texts |-> texts]

InitCluster ==
  /\ Unconfigured
  /\ PipelineIdle
  /\ PureOff
  /\ BackoffOff
  /\ c_pc = "input"
  /\ c_raw \in RawLists
  /\ c_texts = << >>
  /\ c_out = NoneStr

pipeline ==
  << config, wrapper, ending, fpc, rows, exc, serp_env, cse_env, calls,
     attempt_number, hret, attempt >>

\* cluster_endpoint after scrape_keywords_wrapper returned c_raw
C_Endpoint ==
  /\ c_pc = "input"
  /\ c_texts' = ClusterStage(c_raw, FALSE).texts
  /\ c_out' = ClusterStage(c_raw, FALSE).out
  /\ c_pc' = "endpoint"
  /\ UNCHANGED << pipeline, pure, backoff, c_raw >>

\* run_cli_mode after scrape_keywords_wrapper returned c_raw
C_Cli ==
  /\ c_pc = "input"
  /\ c_texts' = ClusterStage(c_raw, TRUE).texts
  /\ c_out' = ClusterStage(c_raw, TRUE).out
  /\ c_pc' = "cli"
  /\ UNCHANGED << pipeline, pure, backoff, c_raw >>

NextCluster ==
  \/ C_Endpoint
  \/ C_Cli

SpecCluster == InitCluster /\ [][NextCluster]_vars

(***************************************************************************)
(* The wait of the retry wrapper on its own: wait_exponential_jitter(1, 4) *)
(* is tenacity's wait with initial = 1, max = 4, exp_base = 2, jitter = 1. *)
(* Time is counted in steps of 1/JitterGrain second, and the jitter        *)
(* random.uniform(0, 1) is drawn among 0..JitterGrain steps.               *)
(***************************************************************************)
JitterGrain == 10
WaitInitial == 1
WaitMax == 4

\* the wait after attempt number n with the drawn jitter j:
\* max(0, min(initial * exp_base ** (n - 1) + jitter, max))
wait_exponential_jitter(n, j) ==
  Min(WaitInitial * JitterGrain * 2^(n - 1) + j, WaitMax * JitterGrain)

InitBackoff ==
  /\ Unconfigured
  /\ PipelineIdle
  /\ PureOff
  /\ ClusterOff
  /\ b_n = 1
  /\ b_delays = << >>

\* attempt b_n returned a failure and the stop condition does not hold: the
\* wrapper draws the jitter, sleeps, and starts attempt b_n + 1
B_Sleep ==
  /\ b_n >= 1
  /\ ~stop_after_attempt(b_n)
  /\ \E j \in 0..JitterGrain :
       b_delays' = Append(b_delays, [jitter |-> j, delay |-> wait_exponential_jitter(b_n, j)])
  /\ b_n' = b_n + 1
  /\ UNCHANGED << pipeline, pure, cluster >>

NextBackoff == B_Sleep

SpecBackoff == InitBackoff /\ [][NextBackoff]_vars

(***************************************************************************)
(* Properties.                                                             *)
(***************************************************************************)
\* the current fetch_serp call has ended
FetchEnded == fpc \in {"returned", "raised"}

\* the retry-wrapped fetch_serp_headful of the current fetch_serp call has ended
WrapperEnded == hret.kind # "none"

\* the browser attempts of the current fetch_serp call, in order
IsBrowserCall(c) == c.provider = "selenium"
BrowserCalls == SelectSeq(calls, IsBrowserCall)

\* all MaxAttempts browser attempts of the current call returned a Failure
BrowserExhausted ==
  /\ WrapperEnded
  /\ attempt_number = MaxAttempts
  /\ aret.kind = "returned"
  /\ ~aret.success

CseConfigured == GOOGLE_CSE_KEY /\ GOOGLE_CSE_CX

\* C1: fetch_serp never raises to its caller, whatever the providers do.
C1_NeverRaises ==
  fpc # "raised"

\* C2: whenever fetch_serp returns, the returned list has at least one record.
C2_ReturnsNonEmpty ==
  fpc = "returned" => Len(rows) >= 1

\* C3: when all 4 browser attempts failed, the retry wrapper returns the last
\* attempt's Failure value unchanged to fetch_serp.
C3_LastFailureReturned ==
  BrowserExhausted => hret = aret

\* C4: the browser attempt is run again only after an attempt that returned a
\* Failure; 4 attempts are run when every attempt fails; when attempt k is the
\* first Success, k attempts are run and the wrapper returns that Success.
C4_RetryOnlyAfterFailure ==
  LET a == BrowserCalls
  IN /\ \A i \in 1..(Len(a) - 1) : a[i].status = "failed"
     /\ (WrapperEnded /\ \A i \in 1..Len(a) : a[i].status = "failed") => Len(a) = MaxAttempts
     /\ (WrapperEnded /\ Len(a) >= 1 /\ a[Len(a)].status = "ok")
          => /\ Len(a) = attempt_number
             /\ hret = aret
             /\ hret.kind = "returned"
             /\ hret.success

\* C4 witness: the third attempt is the first Success and the wrapper returned it
C4_Witness ==
  /\ WrapperEnded
  /\ hret.kind = "returned"
  /\ hret.success
  /\ Len(BrowserCalls) = 3
  /\ BrowserCalls[2].status = "failed"

\* the rows of fetch_serp are the records of one API answer, tagged with source
TaggedApiRows(answer, source) ==
  /\ fpc = "returned"
  /\ Len(rows) = Len(api_search(answer, per_keyword))
  /\ \A i \in 1..Len(rows) : rows[i].source = source /\ rows[i].blocked = FALSE

\* C5: with api_first unset, when the browser failed on all its attempts and a
\* configured API provider answers, fetch_serp returns that provider's records.
C5_FallbackReached ==
  (FetchEnded /\ ~api_first /\ BrowserExhausted)
    => /\ (SERP_API_KEY /\ ~serp_env.raises) => TaggedApiRows(serp_env, "serpapi")
       /\ ((~SERP_API_KEY \/ serp_env.raises) /\ CseConfigured /\ ~cse_env.raises)
            => TaggedApiRows(cse_env, "google_cse")

\* C6: within one fetch_serp call no provider is invoked after a provider call
\* that succeeded: every call but the last one of the call log has failed.
C6_ShortCircuit ==
  \A i \in 1..(Len(calls) - 1) : calls[i].status \in {"failed", "raised"}

\* C6 witness: a call returned after a failed provider call and a successful one
C6_Witness ==
  /\ fpc = "returned"
  /\ Len(calls) >= 2
  /\ calls[Len(calls)].status = "ok"

\* every provider that is available has failed in the current fetch_serp call
AllProvidersFailed ==
  /\ FetchEnded
  /\ BrowserExhausted
  /\ SERP_API_KEY => serp_env.raises
  /\ CseConfigured => cse_env.raises

\* C7: when every available provider fails, fetch_serp returns exactly one
\* record, with blocked = true, source = blocked and a non-null blocked_reason.
C7_SentinelOnTotalFailure ==
  AllProvidersFailed
    => /\ fpc = "returned"
       /\ Len(rows) = 1
       /\ rows[1].blocked
       /\ rows[1].source = "blocked"
       /\ rows[1].blocked_reason # NoneStr

\* C8: when every available provider fails, the sentinel carries the reason and
\* the debug path of the most recent failure: those of the last browser attempt
\* when no API provider was tried after it, and no browser attempt's debug file
\* when an API provider failed last.
C8_MostRecentFailure ==
  AllProvidersFailed
    => /\ fpc = "returned"
       /\ Len(rows) = 1
       /\ IF SERP_API_KEY \/ CseConfigured
          THEN rows[1].debug_path = NonePath
          ELSE /\ rows[1].blocked_reason = aret.payload.blocked_reason
               /\ rows[1].debug_path = aret.payload.debug_path

\* C9: an attempt that created a driver has called driver.quit() when it ends,
\* on every exit path: a driver is open only inside the body of an attempt.
C9_SessionReleased ==
  driver = "open" => apc \in {"navigate", "check1", "scroll", "check2", "except", "finally"}

\* C9 witness: an attempt that ended by an exception raised inside its exception
\* handler, with its driver quit
C9_Witness ==
  /\ apc = "ended"
  /\ aret.kind = "raised"
  /\ driver = "quit"

\* all_results is one non-empty contiguous group of records per keyword, in order
Grouped ==
  \E cut \in [0..Len(keywords) -> 0..Len(all_results)] :
    /\ cut[0] = 0
    /\ cut[Len(keywords)] = Len(all_results)
    /\ \A i \in 1..Len(keywords) :
         /\ cut[i - 1] < cut[i]
         /\ \A j \in (cut[i - 1] + 1)..cut[i] : all_results[j].keyword = keywords[i]

\* C10: scrape_keywords_wrapper returns the concatenation, in keyword order, of
\* one non-empty group of records per input keyword.
C10_OneGroupPerKeyword ==
  wpc \in {"returned", "raised"} => (wpc = "returned" /\ Grouped)

\* C11: the total failure of a keyword does not stop acquisition: after a
\* keyword whose browser attempts all failed, the wrapper still ends by
\* returning, and only after every keyword was passed to fetch_serp.
C11_EveryKeywordFetched ==
  (BrowserExhausted /\ wpc \in {"returned", "raised"})
    => (wpc = "returned" /\ ki > Len(keywords))

(***************************************************************************)
(* Properties of detect_blocking and extract_serp_from_html (SpecPure).    *)
(***************************************************************************)
Classified == p_pc \in {"classified", "extracted"}

\* the markers of a page, read off the text of the page as written
UnusualTrafficMarker(h) ==
  h.frags \cap {"unusual traffic", "our systems have detected unusual traffic"} # {}
CaptchaMarker(h) == h.frags \cap {"reCAPTCHA", "g-recaptcha"} # {}
JsChallengeMarker(h) == {"please enable javascript", "Cloudflare"} \subseteq h.frags
RobotMarker(h) == h.frags \cap {"are you a robot", "press and hold"} # {}
AnyMarker(h) ==
  UnusualTrafficMarker(h) \/ CaptchaMarker(h) \/ JsChallengeMarker(h) \/ RobotMarker(h)

\* a result container: an h3, a .VwiC3b element or a div.g
HasResultContainer(h) ==
  \E i \in 1..Len(h.nodes) :
    h.nodes[i].tag = "h3" \/ h.nodes[i].cls = "VwiC3b"
      \/ (h.nodes[i].tag = "div" /\ h.nodes[i].cls = "g")

Blocked(reason) == [blocked |-> TRUE, reason |-> reason]

\* C12: the rules of detect_blocking apply in the order empty, unusual traffic,
\* CAPTCHA, JS challenge, robot challenge, no result container, first match
\* wins; a CAPTCHA page without result container has the reason recaptcha.
C12_RuleOrder ==
  Classified =>
    /\ p_html.empty => p_det = Blocked("empty_html")
    /\ (~p_html.empty /\ UnusualTrafficMarker(p_html))
         => p_det = Blocked("unusual_traffic_message")
    /\ (~p_html.empty /\ ~UnusualTrafficMarker(p_html) /\ CaptchaMarker(p_html))
         => p_det = Blocked("recaptcha")
    /\ (~p_html.empty /\ ~UnusualTrafficMarker(p_html) /\ ~CaptchaMarker(p_html)
          /\ JsChallengeMarker(p_html))
         => p_det = Blocked("cloudflare_js_challenge")
    /\ (~p_html.empty /\ ~UnusualTrafficMarker(p_html) /\ ~CaptchaMarker(p_html)
          /\ ~JsChallengeMarker(p_html) /\ RobotMarker(p_html))
         => p_det = Blocked("robot_challenge")
    /\ p_det = Blocked("no_result_nodes") => ~AnyMarker(p_html)

\* C12 witness: a classified CAPTCHA page without any result container
C12_Witness ==
  /\ Classified
  /\ CaptchaMarker(p_html)
  /\ ~HasResultContainer(p_html)
  /\ p_det = Blocked("recaptcha")

\* C13: a non-empty page without adversarial marker is blocked with the reason
\* no_result_nodes when it has no result container, and not blocked, with a
\* null reason, when it has one.
C13_StructuralRule ==
  (Classified /\ ~p_html.empty /\ ~AnyMarker(p_html))
    => p_det = IF HasResultContainer(p_html)
               THEN [blocked |-> FALSE, reason |-> NoneStr]
               ELSE Blocked("no_result_nodes")

\* C13 witness: a classified page without marker whose only element is a snippet
C13_Witness ==
  /\ Classified
  /\ ~AnyMarker(p_html)
  /\ p_html.nodes = SnippetDom
  /\ ~p_det.blocked

Extracted == p_pc = "extracted"

\* C14: extract_serp_from_html returns at most max_items records, and their
\* positions are 1, 2, ..., len(result) in order.
C14_BoundedAndNumbered ==
  Extracted =>
    /\ Len(p_ext) <= p_max
    /\ \A i \in 1..Len(p_ext) : p_ext[i].position = i

\* C14 witness: a record extracted from the block that follows a block without h3
C14_Witness ==
  /\ Extracted
  /\ p_html.nodes = SkipDom
  /\ Len(p_ext) = 1
  /\ p_ext[1].title = "Second"

\* C15: extract_serp_from_html never returns two records with the same
\* (title, url, snippet).
C15_NoDuplicates ==
  Extracted =>
    \A i, j \in 1..Len(p_ext) :
      i < j => << p_ext[i].title, p_ext[i].url, p_ext[i].snippet >>
               # << p_ext[j].title, p_ext[j].url, p_ext[j].snippet >>

\* C20: the url of an extracted record is never a redirect wrapper: it is the
\* destination URL.
C20_UrlsUnwrapped ==
  Extracted => \A i \in 1..Len(p_ext) : p_ext[i].url = UrlClean(p_ext[i].url)

(***************************************************************************)
(* Properties of the pipeline (Spec), continued.                           *)
(***************************************************************************)
\* C16: with api_first set and an API provider available (SerpAPI, or Google
\* CSE alone), the first provider fetch_serp invokes is an API provider.
C16_ApiBeforeBrowser ==
  (api_first /\ (SERP_API_KEY \/ CseConfigured) /\ Len(calls) >= 1)
    => calls[1].provider \in {"serpapi", "google_cse"}

\* the providers fetch_serp has to try after the browser failed, in order
ProvidersAfterBrowser ==
  IF SERP_API_KEY
  THEN << "serpapi" >> \o (IF serp_env.raises /\ CseConfigured THEN << "google_cse" >> ELSE << >>)
  ELSE IF CseConfigured THEN << "google_cse" >> ELSE << >>

\* C17: with api_first unset the providers are tried in the order browser,
\* SerpAPI, Google CSE, a provider without credentials being skipped.
C17_DefaultOrder ==
  (FetchEnded /\ ~api_first /\ BrowserExhausted)
    => [i \in 1..Len(calls) |-> calls[i].provider]
         = [i \in 1..MaxAttempts |-> "selenium"] \o ProvidersAfterBrowser

\* the invariant of a returned record
RecordOk(r) ==
  IF r.blocked
  THEN r.source = "blocked" /\ r.title = "" /\ r.snippet = "" /\ r.url = ""
  ELSE r.source \in {"selenium", "serpapi", "google_cse"} /\ r.position >= 1

\* C18: every record returned by fetch_serp and by scrape_keywords_wrapper is
\* either a blocked record with source blocked and empty title, snippet and
\* url, or a record of a real provider with position >= 1.
C18_RecordInvariant ==
  /\ fpc = "returned" => \A i \in 1..Len(rows) : RecordOk(rows[i])
  /\ \A i \in 1..Len(all_results) : RecordOk(all_results[i])

\* C18 witness: the wrapper returned records of the browser
C18_Witness ==
  /\ wpc = "returned"
  /\ Len(all_results) >= 1
  /\ all_results[1].source = "selenium"

\* C19: an exception raised during a browser attempt is turned into a returned
\* Failure: no attempt ends by raising.
C19_AttemptNeverRaises ==
  apc = "ended" => aret.kind = "returned"

\* C21: when save_raw_json raises at the end of scrape_keywords_wrapper, the
\* wrapper still returns, and returns the accumulated list of all keywords.
C21_SaveFailureSwallowed ==
  raw_save = "OSError"
    => (wpc = "returned" /\ ki > Len(keywords) /\ result = all_results)

\* C21 witness: save_raw_json raised and a non-empty list was returned
C21_Witness ==
  /\ raw_save = "OSError"
  /\ wpc = "returned"
  /\ Len(result) >= 1

(***************************************************************************)
(* Properties of the pipeline under an expired deadline (SpecDeadline).    *)
(***************************************************************************)
\* a suspension was entered: the wait after navigation (the attempt went past
\* it), the backoff before a further attempt, or the delay between keywords
SuspensionEntered ==
  \/ apc \in {"check1", "scroll", "check2"}
  \/ attempt_number > 1
  \/ ki > 1

\* C22: once the caller's deadline has expired no suspension is entered, and a
\* browser attempt in flight ends with its session released and Failure(timeout).
C22_CooperativeCancellation ==
  deadline_expired =>
    /\ ~SuspensionEntered
    /\ (apc = "ended" /\ driver = "quit")
         => (aret.kind = "returned" /\ ~aret.success
             /\ aret.payload.blocked_reason = "timeout")

(***************************************************************************)
(* Properties of the clustering stage (SpecCluster).                       *)
(***************************************************************************)
\* C23: no empty text is among the texts passed to fit_transform / cluster:
\* records whose title and snippet are both empty are skipped before.
C23_NoEmptyText ==
  c_pc \in {"endpoint", "cli"}
    => \A i \in 1..Len(c_texts) : c_texts[i] # << >>

(***************************************************************************)
(* Properties of the retry wait (SpecBackoff).  b_delays[i] is the sleep   *)
(* before attempt i + 1.                                                   *)
(***************************************************************************)
\* C24: the delay slept before attempt n (n in 2..4) is backoffBase * 2^(n-2)
\* plus the jitter drawn for it, with backoffBase = 1 second: never below the
\* exponential part, and the drawn jitter is applied to every retry.
C24_BackoffWithJitter ==
  \A i \in 1..Len(b_delays) :
    /\ b_delays[i].delay >= JitterGrain * 2^(i - 1)
    /\ b_delays[i].delay = JitterGrain * 2^(i - 1) + b_delays[i].jitter

(***************************************************************************)
(* Properties of the pipeline (Spec), continued.                           *)
(***************************************************************************)
\* C26: when a blocking check of an attempt reads a page that detect_blocking
\* reports blocked, the attempt goes straight to its exit (no marker wait,
\* scrolling or extraction) and returns Failure with the classifier's reason and
\* the path of the saved page.
C26_StopOnBlock ==
  [][(/\ apc \in {"check1", "check2"}
      /\ apc' # apc
      /\ ~(aret'.kind = "raised" /\ aret'.exc = "WebDriverException")
      /\ detect_blocking(html').blocked)
     => (/\ apc' = "finally"
         /\ aret'.kind = "returned"
         /\ ~aret'.success
         /\ aret'.payload.blocked_reason = detect_blocking(html').reason
         /\ aret'.payload.debug_path # NonePath)]_vars

CallsOf(provider) == {i \in 1..Len(calls) : calls[i].provider = provider}

C28_OneSessionAtATime ==
  (apc \in {"ended", "make_driver", "idle"} \/ wpc \in {"loop", "sleep", "returned", "raised"})
    => driver # "open"

\* C28 witness: a failed attempt that will be retried has ended with its driver quit
C28_Witness ==
  /\ apc = "ended"
  /\ driver = "quit"
  /\ RetryDecision(aret, attempt_number) = "retry"
  /\ ki = 2

\* C29: at most MaxAttempts browser attempts are made for a keyword, and
\* scrape_keywords_wrapper eventually returns or raises.
C29_BoundedTermination ==
  /\ [](attempt_number <= MaxAttempts /\ Len(BrowserCalls) <= MaxAttempts)
  /\ <>(wpc \in {"returned", "raised"})

\* C29 witness: the wrapper ended after a keyword that was blocked on all attempts
C29_Witness ==
  /\ wpc = "raised"
  /\ exc = "RetryError"
  /\ Len(BrowserCalls) = MaxAttempts
  /\ \A i \in 1..MaxAttempts : BrowserCalls[i].status = "failed"

(***************************************************************************)
(* Properties of the pure functions (SpecPure), continued.                 *)
(***************************************************************************)
\* C30: on a page that detect_blocking does not report blocked and that has an
\* h3 element, extract_serp_from_html with max_items >= 1 returns a record.
C30_NonEmptyExtraction ==
  (Extracted /\ ~p_det.blocked /\ SelectFrom(p_html.nodes, "h3") # << >> /\ p_max >= 1)
    => Len(p_ext) >= 1

\* C30 witness: the only heading is outside the one block and not in a link:
\* the fallback produced the record
C30_Witness ==
  /\ Extracted
  /\ ~p_det.blocked
  /\ p_html.nodes = VedDom
  /\ p_max >= 1
  /\ Len(p_ext) = 1
  /\ p_ext[1].title = "Outside"

\* the reasons detect_blocking returns
ReturnedReasons ==
  {"empty_html", "unusual_traffic_message", "recaptcha", "cloudflare_js_challenge",
   "robot_challenge", "no_result_nodes"}

\* C31: a blocked classification carries one of the six reasons of
\* ReturnedReasons, never sorry_unusual: a page matching the "sorry" rule
\* already matches the unusual-traffic rule.
C31_ReasonSet ==
  Classified =>
    /\ p_det.blocked => p_det.reason \in ReturnedReasons
    /\ ~p_det.blocked => p_det.reason = NoneStr
    /\ p_det.reason # "sorry_unusual"

\* C31 witness: a page with "Sorry" and the unusual-traffic sentence, and no
\* other marker, is classified unusual_traffic_message
C31_Witness ==
  /\ Classified
  /\ p_html.frags = {"Sorry", "our systems have detected unusual traffic"}
  /\ p_det = Blocked("unusual_traffic_message")

====
